---- MODULE Spec2Model ----
(***************************************************************************)
(* BeetSeeker: the polling reconciliation loop of main.py, the download    *)
(* status evaluation of slskd.py and the import handshake of betanin.py.   *)
(*                                                                         *)
(* Strings that the code takes apart (directory paths, directory names)    *)
(* are sequences of one-character strings, so that normalisation and       *)
(* lower-casing are computed rather than assumed.                          *)
(* The log-only counter `iteration` (main.py:88,91) is left out: it is an  *)
(* unbounded Python integer that no branch reads.                          *)
(***************************************************************************)
EXTENDS Integers, Sequences, FiniteSets, TLC

\* ------------------------------------------------------------------------
\* Bounds of the model (not program constants)
\* ------------------------------------------------------------------------
\* longest processing queue the environment is allowed to build up
MaxQueue == 2
\* largest failure count a directory is allowed to reach
MaxFailures == 4
\* largest number of directory entries of a status response on which the
\* functions of slskd.py are evaluated one by one
MaxEntries == 2

\* ------------------------------------------------------------------------
\* Program constants
\* ------------------------------------------------------------------------
\* main.py:165  `if processing_failures[subdirectory] >= 3`
RetryCap == 3
\* slskd.py:182 / slskd.py:247  the completion sentinel
CompletedState == "Completed, Succeeded"
\* any other file state
InProgressState == "InProgress"

\* ------------------------------------------------------------------------
\* String helpers (Python str methods used by slskd.py)
\* ------------------------------------------------------------------------
\* str.replace('\\', '/')
ReplaceBackslash(s) == [i \in 1..Len(s) |-> IF s[i] = "\\" THEN "/" ELSE s[i]]

\* str.rstrip('/')
RECURSIVE RStripSlash(_)
RStripSlash(s) ==
    IF s # <<>> /\ s[Len(s)] = "/"
    THEN RStripSlash(SubSeq(s, 1, Len(s) - 1))
    ELSE s

\* str.split('/')[-1] : what follows the last '/', the whole string if none
LastSegment(s) ==
    IF \E i \in 1..Len(s) : s[i] = "/"
    THEN LET i == CHOOSE j \in 1..Len(s) : s[j] = "/" /\ \A k \in (j+1)..Len(s) : s[k] # "/"
         IN SubSeq(s, i + 1, Len(s))
    ELSE s

\* str.lower() on one character
LowerChar(c) ==
    CASE c = "A" -> "a"
      [] c = "B" -> "b"
      [] c = "X" -> "x"
      [] OTHER -> c

\* str.lower()
Lower(s) == [i \in 1..Len(s) |-> LowerChar(s[i])]

\* dir_path.replace('\\', '/') ; dir_path.rstrip('/').split('/')[-1]
DirName(dir_path) == LastSegment(RStripSlash(ReplaceBackslash(dir_path)))

\* ------------------------------------------------------------------------
\* Download snapshots
\* ------------------------------------------------------------------------
\* A response of the status endpoint is [wf, users]: wf says that the JSON
\* has the expected shape (a list of user objects); users is the list of
\* users, each user the list of its directory entries [directory, files].
\* A failed request is the empty list (slskd.py:93, slskd.py:98).
EmptyData == [wf |-> TRUE, users |-> <<>>]
\* A 200 response whose JSON is a non-empty list of non-objects: truthy, and
\* `user.get` raises AttributeError on it.
MalformedData == [wf |-> FALSE, users |-> <<>>]

\* `if not data`
IsFalsy(data) == data.wf /\ data.users = <<>>

\* all directory entries of all users, in iteration order
RECURSIVE Flatten(_)
Flatten(users) ==
    IF users = <<>> THEN <<>> ELSE Head(users) \o Flatten(Tail(users))

\* entries whose 'directory' is not empty (`if dir_path:` / `if not dir_path: continue`)
NamedEntries(data) == SelectSeq(Flatten(data.users), LAMBDA e : e.directory # <<>>)

\* number of files in state CompletedState
RECURSIVE CountCompleted(_)
CountCompleted(files) ==
    IF files = <<>> THEN 0
    ELSE (IF Head(files) = CompletedState THEN 1 ELSE 0) + CountCompleted(Tail(files))

\* total_files / completed_files summed over a list of directory entries
RECURSIVE TotalFiles(_)
TotalFiles(entries) ==
    IF entries = <<>> THEN 0
    ELSE Len(Head(entries).files) + TotalFiles(Tail(entries))

RECURSIVE CompletedFiles(_)
CompletedFiles(entries) ==
    IF entries = <<>> THEN 0
    ELSE CountCompleted(Head(entries).files) + CompletedFiles(Tail(entries))

\* keys of a dict in insertion order: first occurrences of a sequence
RECURSIVE FirstOccurrences(_, _)
FirstOccurrences(s, seen) ==
    IF s = <<>> THEN <<>>
    ELSE IF Head(s) \in seen THEN FirstOccurrences(Tail(s), seen)
    ELSE <<Head(s)>> \o FirstOccurrences(Tail(s), seen \cup {Head(s)})

\* slskd.get_subdirectories: the set of normalised directory names
get_subdirectories(data) ==
    IF IsFalsy(data) THEN {}
    ELSE { DirName(NamedEntries(data)[i].directory) : i \in 1..Len(NamedEntries(data)) }

\* EntriesNamed keeping the first entry of a name only, not summing
EntriesNamedFirst(data, dir_name) ==
    LET named == SelectSeq(NamedEntries(data), LAMBDA e : DirName(e.directory) = dir_name)
    IN IF named = <<>> THEN <<>> ELSE <<Head(named)>>

\* the entries grouped under the dictionary key dir_name (exact match)
EntriesNamed(data, dir_name) ==
    SelectSeq(NamedEntries(data), LAMBDA e : DirName(e.directory) = dir_name)

\* EntriesMatching comparing the names as they are
EntriesMatchingExactly(data, directory_name) ==
    SelectSeq(NamedEntries(data), LAMBDA e : DirName(e.directory) = directory_name)

\* the entries matched by is_directory_completed (match ignoring case)
EntriesMatching(data, directory_name) ==
    SelectSeq(NamedEntries(data),
              LAMBDA e : Lower(DirName(e.directory)) = Lower(directory_name))

\* slskd.get_completed_directories: list, in dictionary order, of the names
\* whose summed file counts are all completed and not zero
get_completed_directories(data) ==
    IF IsFalsy(data) THEN <<>>
    ELSE LET entries == NamedEntries(data)
             names == FirstOccurrences([i \in 1..Len(entries) |-> DirName(entries[i].directory)], {})
         IN SelectSeq(names,
                LAMBDA n : TotalFiles(EntriesNamed(data, n)) > 0
                           /\ CompletedFiles(EntriesNamed(data, n)) = TotalFiles(EntriesNamed(data, n)))

\* is_directory_completed saying True whatever the data
is_directory_completed_always(data, directory_name) == TRUE

\* is_directory_completed saying True when no file matches
is_directory_completed_vacuous(data, directory_name) ==
    IF IsFalsy(data) THEN FALSE
    ELSE CompletedFiles(EntriesMatching(data, directory_name))
            = TotalFiles(EntriesMatching(data, directory_name))

\* slskd.is_directory_completed
is_directory_completed(data, directory_name) ==
    IF IsFalsy(data) THEN FALSE
    ELSE LET matching == EntriesMatching(data, directory_name)
         IN IF TotalFiles(matching) = 0 THEN FALSE
            ELSE CompletedFiles(matching) = TotalFiles(matching)

\* ------------------------------------------------------------------------
\* betanin.import_downloads
\* ------------------------------------------------------------------------
\* outcomes of requests.get on the probe URL: a status code, or an exception
ProbeOutcomes == {"200", "401", "500", "exception"}
\* outcomes of requests.post on the submission URL
PostOutcomes == {"200", "400", "404", "422", "500", "exception"}

\* one HTTP request issued, with what came back (a status code or "exception")
Request(request, outcome) == [request |-> request, outcome |-> outcome]

\* ProbeOk accepting every status
ProbeOkAlways(probe) == probe # "exception"

\* betanin.py:82  the connectivity probe lets the submission go on
ProbeOk(probe) == probe = "200"

\* betanin.py:121  the POST counts as a success
PostOk(post) == post = "200"

\* import_downloads(parent_directory) with the configuration (api_key), the
\* status data its own get_download_status() call receives (betanin.py:47) and
\* the outcomes of the two betanin requests.  Result: what the call returns
\* ("True", "False") or that it raises ("Raise"), and the requests it issued.
import_downloads(api_key, parent_directory, data, probe, post) ==
    LET status == Request("GET downloads", IF data.wf THEN "200" ELSE "200, wrong shape")
    IN  IF ~api_key
        THEN \* betanin.py:32-34
             [result |-> "False", requests |-> <<>>]
        ELSE IF ~data.wf
        THEN \* betanin.py:48: all_downloads_completed is outside every try
             [result |-> "Raise", requests |-> <<status>>]
        ELSE IF ~ProbeOk(probe)
        THEN \* betanin.py:88-97
             [result |-> "False",
              requests |-> <<status, Request("GET torrents", probe)>>]
        ELSE \* betanin.py:99-143
             [result |-> IF PostOk(post) THEN "True" ELSE "False",
              requests |-> <<status, Request("GET torrents", probe),
                             Request("POST torrents", post)>>]

\* what the listing request of check_manual_intervention_needed comes back
\* with: a status other than 200, an exception, a 200 without torrents, or a
\* 200 whose first torrent has the given status
ManualOutcomes == {"500", "exception", "no torrents", "COMPLETED", "NEEDS_INPUT"}

\* betanin.check_manual_intervention_needed: True only when the first torrent
\* of the listing is in a status other than COMPLETED
check_manual_intervention_needed(key, outcome) ==
    IF ~key THEN FALSE                       \* betanin.py:184-186
    ELSE IF outcome = "500" THEN FALSE       \* betanin.py:196-198
    ELSE IF outcome = "exception" THEN FALSE \* betanin.py:220-223
    ELSE IF outcome = "no torrents" THEN FALSE \* betanin.py:202-204
    ELSE outcome # "COMPLETED"               \* betanin.py:212-219

\* ------------------------------------------------------------------------
\* The status responses the loop is run against
\* ------------------------------------------------------------------------
Dir(path, files) == [directory |-> path, files |-> files]

PathA == <<"x", "\\", "A", "/">>
PathB == <<"B">>
PathLowerA == <<"d", "/", "a">>

\* The responses of the status endpoint the program is run against.
\*   EmptyData      a failed request, or nothing downloading
\*   MalformedData  a response of the wrong shape
\*   OnlyA          A with all its files completed
\*   Mixed          A completed under one user and a (lower case) in progress
\*                  under another, B completed, an entry of B without files and
\*                  an entry without a directory
OnlyA ==
    [wf |-> TRUE,
     users |-> << <<Dir(PathA, <<CompletedState, CompletedState>>)>> >>]

Mixed ==
    [wf |-> TRUE,
     users |-> << <<Dir(PathA, <<CompletedState>>),
                    Dir(<<>>, <<InProgressState>>),
                    Dir(PathB, <<>>)>>,
                  <<Dir(PathLowerA, <<CompletedState, InProgressState>>),
                    Dir(PathB, <<CompletedState>>)>> >>]

Responses == {EmptyData, MalformedData, OnlyA, Mixed}

\* ------------------------------------------------------------------------
\* The status responses on which the functions of slskd.py are evaluated one
\* by one: every list of up to MaxEntries directory entries, split in every
\* way between two users
\* ------------------------------------------------------------------------
\* the 'files' of a directory entry, by state
FileLists ==
    { <<>>, <<CompletedState>>, <<InProgressState>>,
      <<CompletedState, CompletedState>>, <<CompletedState, InProgressState>> }

\* the 'directory' of a directory entry; <<>> is a missing or empty one
SnapshotPaths == { <<>>, PathA, PathLowerA, PathB }

EntryLists ==
    UNION { [1..n -> [directory : SnapshotPaths, files : FileLists]] : n \in 0..MaxEntries }

Snapshots ==
    {EmptyData} \cup
    UNION { { [wf |-> TRUE,
               users |-> <<SubSeq(l, 1, k), SubSeq(l, k + 1, Len(l))>>] : k \in 0..Len(l) }
            : l \in EntryLists }

\* the names is_directory_completed is asked about: of a directory, the same
\* in another case, another directory, and the parent directory of PathA
QueryNames == { <<"A">>, <<"a">>, <<"B">>, <<"x">> }

\* ------------------------------------------------------------------------
\* State
\* ------------------------------------------------------------------------
VARIABLES
    pc,                       \* position of the main program
    api_key,                  \* config.BETANIN_API_KEY is set (truthy)
    subdirectory_queue,       \* main.py:45
    previous_subdirectories,  \* main.py:48
    processed_directories,    \* main.py:49
    processing_failures,      \* main.py:50
    download_data,            \* main.py:54, main.py:96
    current_subdirectories,   \* main.py:97
    completed_directories,    \* main.py:59, main.py:98
    branch,                   \* which branch of main.py:124-180 this cycle took
    submitted,                \* arguments of the import_downloads calls of this cycle
    slept,                    \* whether time.sleep ran since this cycle began
    discarded,                \* directories popped by main.py:139 so far
    import_call,              \* one call of betanin.import_downloads, looked at alone
    query                     \* one call of slskd.is_directory_completed, looked at alone

vars == <<pc, api_key, subdirectory_queue, previous_subdirectories,
          processed_directories, processing_failures, download_data,
          current_subdirectories, completed_directories, branch, submitted,
          slept, discarded, import_call, query>>

\* ------------------------------------------------------------------------
\* Helpers on the queue and the sets
\* ------------------------------------------------------------------------
\* elements of a sequence
Range(s) == { s[i] : i \in 1..Len(s) }

\* number of occurrences of d in the queue q
Count(q, d) == Cardinality({ i \in 1..Len(q) : q[i] = d })

\* the orders in which a `for` loop can visit a Python set
Orderings(S) ==
    { q \in [1..Cardinality(S) -> S] : Range(q) = S }

\* PopLeft emptying the queue
PopLeftAll(q) == <<>>

\* deque.popleft()
PopLeft(q) == Tail(q)

\* MoveToEnd without the append
MoveToEndDropping(q) == Tail(q)

\* MoveToEnd leaving the head where it is
MoveToEndStuck(q) == q

\* deque.popleft() ; deque.append(d)
MoveToEnd(q) == Append(Tail(q), Head(q))

\* MarkProcessed skipped when manual intervention is needed
MarkProcessedUnlessManual(processed, subdirectory, manual) ==
    IF manual THEN processed ELSE processed \cup {subdirectory}

\* MarkProcessed forgetting what was processed before
MarkProcessedOnly(processed, subdirectory, manual) == {subdirectory}

\* main.py:149-155  processed_directories.add(subdirectory), after the manual
\* intervention check whose result (manual) is only logged
MarkProcessed(processed, subdirectory, manual) == processed \cup {subdirectory}

\* the values of `branch` of a cycle whose import succeeded (main.py:149-152)
SuccessBranch(manual) ==
    IF manual THEN "success, manual intervention" ELSE "success"

\* NewEligible without `directory not in processed_directories`
NewEligibleIgnoringProcessed(directory, completed, processed, queue) ==
    directory \in Range(completed)

\* main.py:108  the condition under which a new directory is appended
NewEligible(directory, completed, processed, queue) ==
    directory \in Range(completed) /\ directory \notin processed

\* CurrentEligible never true: no catch-up enqueue
CurrentEligibleNever(directory, completed, processed, queue) == FALSE

\* main.py:114-116  the condition under which a current directory is appended
CurrentEligible(directory, completed, processed, queue) ==
    /\ directory \in Range(completed)
    /\ directory \notin processed
    /\ directory \notin Range(queue)

\* main.py:101-110  the queue after the loop over new_subdirectories, for one
\* iteration order of the set
EnqueueNewResults(queue, current, previous, completed, processed) ==
    LET new_subdirectories == current \ previous
        eligible == { d \in new_subdirectories : NewEligible(d, completed, processed, queue) }
    IN { queue \o order : order \in Orderings(eligible) }

\* main.py:113-118  the queue after the loop over current_subdirectories
EnqueueCurrentResults(queue, current, completed, processed) ==
    LET eligible == { d \in current : CurrentEligible(d, completed, processed, queue) }
    IN { queue \o order : order \in Orderings(eligible) }

\* the longest queue the two enqueue steps can produce from these inputs
QueueLenAfterEnqueue(queue, current, previous, completed, processed) ==
    LET q1 == CHOOSE q \in EnqueueNewResults(queue, current, previous, completed, processed) : TRUE
        q2 == CHOOSE q \in EnqueueCurrentResults(q1, current, completed, processed) : TRUE
    IN Len(q2)

\* processing_failures[d] += 1, or = 1 when d has no entry (main.py:159-162)
RecordFailure(failures, d) ==
    [x \in DOMAIN failures \cup {d} |->
        IF x = d THEN (IF d \in DOMAIN failures THEN failures[d] + 1 ELSE 1)
        ELSE failures[x]]

\* main.py:165  too many failed attempts
TooManyFailures(count) == count >= RetryCap

NoFailures == [d \in {} |-> 0]

\* The two status requests of one cycle (main.py:96 and slskd.py:32, called
\* from main.py:97) go to the same URL one after the other: the data they
\* return may differ, their shape is taken to be the same.
Fetches ==
    { f \in [data : Responses, listing : Responses] : f.data.wf = f.listing.wf }

\* no call of import_downloads is being looked at
NoCall ==
    [parent_directory |-> <<>>, data |-> EmptyData, probe |-> "200", post |-> "200",
     result |-> "no call", requests |-> <<>>]

\* no call of is_directory_completed is being looked at
NoQuery == [directory_name |-> <<>>, result |-> "no call"]

\* ------------------------------------------------------------------------
\* Initial state and start-up (main.py:44-73)
\* ------------------------------------------------------------------------
\* main.py:44-50: the module-level state before start-up
ProgramInit ==
    /\ pc = "startup"
    /\ api_key \in BOOLEAN
    /\ subdirectory_queue = <<>>
    /\ previous_subdirectories = {}
    /\ processed_directories = {}
    /\ processing_failures = NoFailures
    /\ download_data = EmptyData
    /\ current_subdirectories = {}
    /\ completed_directories = <<>>
    /\ branch = "none"
    /\ submitted = <<>>
    /\ slept = "no cycle yet"
    /\ discarded = {}

Init ==
    /\ ProgramInit
    /\ import_call = NoCall
    /\ query = NoQuery

\* main.py:54-68: the initial status, the initial directories, the initial queue
Startup ==
    /\ pc = "startup"
    /\ \E f \in Fetches :
        /\ f.data.wf /\ f.listing.wf
        /\ download_data' = f.data
        /\ completed_directories' = get_completed_directories(f.data)
        /\ previous_subdirectories' = get_subdirectories(f.listing)
        /\ subdirectory_queue' =
              SelectSeq(get_completed_directories(f.data),
                        LAMBDA d : d \notin processed_directories)
    /\ pc' = "loop top"
    /\ UNCHANGED <<api_key, processed_directories, processing_failures,
                   current_subdirectories, branch, submitted, slept, discarded,
                   import_call, query>>

\* main.py:58-59 are outside every try: a response of the wrong shape ends
\* the program before the loop is entered
StartupCrash ==
    /\ pc = "startup"
    /\ \E f \in Fetches :
        /\ ~f.data.wf \/ ~f.listing.wf
        /\ download_data' = f.data
    /\ pc' = "crashed"
    /\ UNCHANGED <<api_key, subdirectory_queue, previous_subdirectories,
                   processed_directories, processing_failures,
                   current_subdirectories, completed_directories,
                   branch, submitted, slept, discarded,
                   import_call, query>>

\* ------------------------------------------------------------------------
\* One cycle of the main loop (main.py:89-191)
\* ------------------------------------------------------------------------
\* main.py:91-98: both status requests answer with data of the right shape
BeginCycle ==
    /\ pc = "loop top"
    /\ \E f \in Fetches :
        /\ f.data.wf /\ f.listing.wf
        /\ QueueLenAfterEnqueue(subdirectory_queue, get_subdirectories(f.listing),
                                previous_subdirectories,
                                get_completed_directories(f.data),
                                processed_directories) <= MaxQueue
        /\ download_data' = f.data
        /\ current_subdirectories' = get_subdirectories(f.listing)
        /\ completed_directories' = get_completed_directories(f.data)
    /\ pc' = "enqueue new"
    /\ branch' = "none"
    /\ submitted' = <<>>
    /\ slept' = "no"
    /\ UNCHANGED <<api_key, subdirectory_queue, previous_subdirectories,
                   processed_directories, processing_failures, discarded,
                   import_call, query>>

\* main.py:96-98: get_subdirectories (line 97) or get_completed_directories
\* (line 98) raises on data of the wrong shape
BeginCycleRaises ==
    /\ pc = "loop top"
    /\ \E f \in Fetches :
        /\ ~f.data.wf \/ ~f.listing.wf
        /\ download_data' = f.data
        /\ current_subdirectories' =
              IF f.listing.wf THEN get_subdirectories(f.listing)
              ELSE current_subdirectories
    /\ pc' = "except"
    /\ branch' = "exception"
    /\ submitted' = <<>>
    /\ slept' = "no"
    /\ UNCHANGED <<api_key, subdirectory_queue, previous_subdirectories,
                   processed_directories, processing_failures, completed_directories, discarded,
                   import_call, query>>

\* main.py:100-110
EnqueueNew ==
    /\ pc = "enqueue new"
    /\ subdirectory_queue' \in
          EnqueueNewResults(subdirectory_queue, current_subdirectories,
                            previous_subdirectories, completed_directories,
                            processed_directories)
    /\ pc' = "enqueue current"
    /\ UNCHANGED <<api_key, previous_subdirectories, processed_directories,
                   processing_failures, download_data, current_subdirectories,
                   completed_directories, branch, submitted, slept, discarded,
                   import_call, query>>

\* main.py:112-118
EnqueueCurrent ==
    /\ pc = "enqueue current"
    /\ subdirectory_queue' \in
          EnqueueCurrentResults(subdirectory_queue, current_subdirectories,
                                completed_directories, processed_directories)
    /\ pc' = "process"
    /\ UNCHANGED <<api_key, previous_subdirectories, processed_directories,
                   processing_failures, download_data, current_subdirectories,
                   completed_directories, branch, submitted, slept, discarded,
                   import_call, query>>

\* main.py:182-183, reached by every branch of main.py:124-180 that neither
\* raises nor executes `continue`
UpdatePrevious ==
    /\ previous_subdirectories' = current_subdirectories
    /\ pc' = "sleep"

\* main.py:124, 179-180: nothing queued
ProcessEmpty ==
    /\ pc = "process"
    /\ subdirectory_queue = <<>>
    /\ branch' = "empty"
    /\ UpdatePrevious
    /\ UNCHANGED <<api_key, subdirectory_queue, processed_directories,
                   processing_failures, download_data, current_subdirectories,
                   completed_directories, submitted, slept, discarded,
                   import_call, query>>

\* main.py:126-131, 174-178: the head is not complete
RequeueIncomplete ==
    /\ pc = "process"
    /\ subdirectory_queue # <<>>
    /\ ~is_directory_completed(download_data, Head(subdirectory_queue))
    /\ subdirectory_queue' = MoveToEnd(subdirectory_queue)
    /\ branch' = "incomplete"
    /\ UpdatePrevious
    /\ UNCHANGED <<api_key, processed_directories, processing_failures,
                   download_data, current_subdirectories, completed_directories,
                   submitted, slept, discarded,
                   import_call, query>>

\* where `continue` (main.py:140) takes the program: the top of `while True`,
\* past main.py:183 and past the sleep of main.py:191
ContinueTarget == "loop top"

\* main.py:131-140: the head is complete and no BETANIN_API_KEY is configured
DiscardMissingKey ==
    /\ pc = "process"
    /\ subdirectory_queue # <<>>
    /\ is_directory_completed(download_data, Head(subdirectory_queue))
    /\ ~api_key
    /\ subdirectory_queue' = PopLeft(subdirectory_queue)
    /\ discarded' = discarded \cup {Head(subdirectory_queue)}
    /\ branch' = "missing key"
    /\ pc' = ContinueTarget
    /\ UNCHANGED <<api_key, previous_subdirectories, processed_directories,
                   processing_failures, download_data, current_subdirectories,
                   completed_directories, submitted, slept, import_call, query>>

\* the results import_downloads can give for the head of the queue
ImportResults ==
    { import_downloads(api_key, Head(subdirectory_queue), data, probe, post).result :
        data \in Responses, probe \in ProbeOutcomes, post \in PostOutcomes }

\* main.py:143-156: import_downloads returns True; the manual intervention
\* check is made and its result logged
ImportSucceeds ==
    /\ pc = "process"
    /\ subdirectory_queue # <<>>
    /\ is_directory_completed(download_data, Head(subdirectory_queue))
    /\ api_key
    /\ "True" \in ImportResults
    /\ submitted' = Append(submitted, Head(subdirectory_queue))
    /\ \E outcome \in ManualOutcomes :
          LET manual == check_manual_intervention_needed(api_key, outcome)
          IN /\ processed_directories' =
                   MarkProcessed(processed_directories, Head(subdirectory_queue), manual)
             /\ branch' = SuccessBranch(manual)
    /\ subdirectory_queue' = PopLeft(subdirectory_queue)
    /\ UpdatePrevious
    /\ UNCHANGED <<api_key, processing_failures, download_data,
                   current_subdirectories, completed_directories, slept, discarded,
                   import_call, query>>

\* main.py:143, 157-173: import_downloads returns False
ImportFails ==
    /\ pc = "process"
    /\ subdirectory_queue # <<>>
    /\ is_directory_completed(download_data, Head(subdirectory_queue))
    /\ api_key
    /\ "False" \in ImportResults
    /\ LET subdirectory == Head(subdirectory_queue)
           failures == RecordFailure(processing_failures, subdirectory)
       IN /\ failures[subdirectory] <= MaxFailures
          /\ submitted' = Append(submitted, subdirectory)
          /\ processing_failures' = failures
          /\ IF TooManyFailures(failures[subdirectory])
             THEN /\ subdirectory_queue' = PopLeft(subdirectory_queue)
                  /\ branch' = "abandon"
             ELSE /\ subdirectory_queue' = MoveToEnd(subdirectory_queue)
                  /\ branch' = "retry"
    /\ UpdatePrevious
    /\ UNCHANGED <<api_key, processed_directories, download_data,
                   current_subdirectories, completed_directories, slept, discarded,
                   import_call, query>>

\* main.py:143: import_downloads raises (betanin.py:48 on data of the wrong shape)
ImportRaises ==
    /\ pc = "process"
    /\ subdirectory_queue # <<>>
    /\ is_directory_completed(download_data, Head(subdirectory_queue))
    /\ api_key
    /\ "Raise" \in ImportResults
    /\ submitted' = Append(submitted, Head(subdirectory_queue))
    /\ branch' = "exception"
    /\ pc' = "except"
    /\ UNCHANGED <<api_key, subdirectory_queue, previous_subdirectories,
                   processed_directories, processing_failures, download_data,
                   current_subdirectories, completed_directories, slept, discarded,
                   import_call, query>>

\* ExceptHandler re-raising: the exception leaves the loop and ends the program
ExceptHandlerFatal ==
    /\ pc = "except"
    /\ pc' = "crashed"
    /\ UNCHANGED <<api_key, subdirectory_queue, previous_subdirectories,
                   processed_directories, processing_failures, download_data,
                   current_subdirectories, completed_directories, branch,
                   submitted, slept, discarded,
                   import_call, query>>

\* main.py:185-187: the exception is logged and the program goes on to the sleep
ExceptHandler ==
    /\ pc = "except"
    /\ pc' = "sleep"
    /\ UNCHANGED <<api_key, subdirectory_queue, previous_subdirectories,
                   processed_directories, processing_failures, download_data,
                   current_subdirectories, completed_directories, branch,
                   submitted, slept, discarded,
                   import_call, query>>

\* main.py:189-191; the cycle is over, its record (branch, submitted) is cleared
Sleep ==
    /\ pc = "sleep"
    /\ slept' = "yes"
    /\ branch' = "none"
    /\ submitted' = <<>>
    /\ pc' = "loop top"
    /\ UNCHANGED <<api_key, subdirectory_queue, previous_subdirectories,
                   processed_directories, processing_failures, download_data,
                   current_subdirectories, completed_directories, discarded,
                   import_call, query>>

Next ==
    \/ Startup
    \/ StartupCrash
    \/ BeginCycle
    \/ BeginCycleRaises
    \/ EnqueueNew
    \/ EnqueueCurrent
    \/ ProcessEmpty
    \/ RequeueIncomplete
    \/ DiscardMissingKey
    \/ ImportSucceeds
    \/ ImportFails
    \/ ImportRaises
    \/ ExceptHandler
    \/ Sleep

Spec == Init /\ [][Next]_vars

\* The program is one thread that never blocks for good: every request has a
\* timeout (slskd.py:79, betanin.py:79, betanin.py:116) and the sleep ends, so
\* a step that can be taken is eventually taken.
LiveSpec == Init /\ [][Next]_vars /\ WF_vars(Next)

\* ------------------------------------------------------------------------
\* betanin.import_downloads on its own: one call on every combination of
\* configuration, directory, status data and betanin responses
\* ------------------------------------------------------------------------
ImportInit ==
    /\ ProgramInit
    /\ import_call \in
          [parent_directory : {<<"A">>, <<"B">>, PathA},
           data : Responses, probe : ProbeOutcomes, post : PostOutcomes,
           result : {"pending"}, requests : {<<>>}]
    /\ query = NoQuery

CallImport ==
    /\ import_call.result = "pending"
    /\ LET ret == import_downloads(api_key, import_call.parent_directory,
                                   import_call.data, import_call.probe,
                                   import_call.post)
       IN import_call' = [import_call EXCEPT !.result = ret.result,
                                             !.requests = ret.requests]
    /\ UNCHANGED <<pc, api_key, subdirectory_queue, previous_subdirectories,
                   processed_directories, processing_failures, download_data,
                   current_subdirectories, completed_directories, branch,
                   submitted, slept, discarded, query>>

ImportNext == CallImport

ImportSpec == ImportInit /\ [][ImportNext]_vars

\* ------------------------------------------------------------------------
\* The functions of slskd.py on their own: get_subdirectories' name
\* extraction, get_completed_directories and is_directory_completed applied
\* to one status response
\* ------------------------------------------------------------------------
SnapshotInit ==
    /\ pc = "query"
    /\ api_key = TRUE
    /\ subdirectory_queue = <<>>
    /\ previous_subdirectories = {}
    /\ processed_directories = {}
    /\ processing_failures = NoFailures
    /\ download_data \in Snapshots
    /\ current_subdirectories = {}
    /\ completed_directories = <<>>
    /\ branch = "none"
    /\ submitted = <<>>
    /\ slept = "no cycle yet"
    /\ discarded = {}
    /\ import_call = NoCall
    /\ query \in [directory_name : QueryNames, result : {"pending"}]

QuerySnapshot ==
    /\ pc = "query"
    /\ current_subdirectories' = get_subdirectories(download_data)
    /\ completed_directories' = get_completed_directories(download_data)
    /\ query' = [query EXCEPT !.result =
                    IF is_directory_completed(download_data, query.directory_name)
                    THEN "True" ELSE "False"]
    /\ pc' = "queried"
    /\ UNCHANGED <<api_key, subdirectory_queue, previous_subdirectories,
                   processed_directories, processing_failures, download_data,
                   branch, submitted, slept, discarded, import_call>>

SnapshotNext == QuerySnapshot

SnapshotSpec == SnapshotInit /\ [][SnapshotNext]_vars

\* ------------------------------------------------------------------------
\* Properties
\* ------------------------------------------------------------------------
\* the names that can be queued
QueueNames == UNION { Range(get_completed_directories(r)) : r \in Responses \ {MalformedData} }

\* d is in the `new` diff of the cycle in progress
InNewDiff(d) == d \in current_subdirectories \ previous_subdirectories

\* C1 (as claimed): a directory abandoned after its third failed import
\* (counter at the cap, out of the queue) is put back into the queue only by a
\* cycle in which it is in the `new` diff, i.e. after it disappeared from
\* `current` and reappeared.
C1_AbandonedStaysOut ==
    [][ \A d \in DOMAIN processing_failures :
          ( /\ processing_failures[d] >= RetryCap
            /\ d \notin Range(subdirectory_queue)
            /\ d \in Range(subdirectory_queue') )
          => InNewDiff(d) ]_vars

\* C2 (as claimed): no name occurs in the queue more than once.
C2_NoDuplicates ==
    \A d \in Range(subdirectory_queue) : Count(subdirectory_queue, d) <= 1

\* C3 (as claimed): the failure counter of a directory never exceeds 3.
C3_CounterNeverExceedsCap ==
    \A d \in DOMAIN processing_failures : processing_failures[d] <= RetryCap

\* C4 (as claimed): a directory discarded because the import credential is
\* missing is put back into the queue only by a cycle in which it is in the
\* `new` diff.
C4_DiscardedStaysOut ==
    [][ \A d \in discarded :
          ( /\ d \notin Range(subdirectory_queue)
            /\ d \in Range(subdirectory_queue') )
          => InNewDiff(d) ]_vars

\* C5: neither enqueue step appends a name that is in processed_directories:
\* across each of the two steps the number of occurrences in the queue of
\* every processed name is unchanged, and the old queue is a prefix of the new.
C5_ProcessedNeverEnqueued ==
    [][ (pc \in {"enqueue new", "enqueue current"}) =>
          ( /\ \A d \in processed_directories :
                  Count(subdirectory_queue', d) = Count(subdirectory_queue, d)
            /\ Len(subdirectory_queue') >= Len(subdirectory_queue)
            /\ SubSeq(subdirectory_queue', 1, Len(subdirectory_queue)) = subdirectory_queue ) ]_vars

\* C5 witness: both enqueue steps have run in a cycle whose `new` diff holds a
\* completed directory that is already processed.
C5_Witness ==
    /\ pc = "process"
    /\ \E d \in processed_directories :
          /\ InNewDiff(d)
          /\ d \in Range(completed_directories)
          /\ d \notin Range(subdirectory_queue)

\* C6: when the head is not complete on re-check, the cycle pops it and
\* re-appends it to the tail, calls no import, and leaves processing_failures
\* and processed_directories as they are; the step has no other outcome, so
\* the directory is still queued after the cycle, however often this repeats.
C6_IncompleteRequeue ==
    [][ ( /\ pc = "process"
          /\ subdirectory_queue # <<>>
          /\ ~is_directory_completed(download_data, Head(subdirectory_queue)) )
        => ( /\ subdirectory_queue' = Append(Tail(subdirectory_queue), Head(subdirectory_queue))
             /\ submitted' = <<>>
             /\ processing_failures' = processing_failures
             /\ processed_directories' = processed_directories
             /\ pc' = "sleep" ) ]_vars

\* C6 witness: a cycle has moved an incomplete head behind another directory,
\* and that head already had recorded failures.
C6_Witness ==
    /\ branch = "incomplete"
    /\ Len(subdirectory_queue) >= 2
    /\ subdirectory_queue[Len(subdirectory_queue)] # subdirectory_queue[1]
    /\ subdirectory_queue[Len(subdirectory_queue)] \in DOMAIN processing_failures

\* C9 (as claimed): whenever a cycle is about to begin, the sleep has run since
\* the previous cycle began.
C9_SleepBetweenCycles ==
    pc = "loop top" => slept \in {"no cycle yet", "yes"}

\* C10: the loop is never fatal: an exception caught in a cycle leads to the
\* sleep and the sleep to the next cycle; once the loop is entered the program
\* never ends (only start-up can crash) and always has a next step.
C10_LoopNeverFatal ==
    /\ [][ /\ (pc = "except" => pc' = "sleep")
           /\ (pc = "sleep" => pc' = "loop top")
           /\ (pc' = "crashed" => pc = "startup") ]_vars
    /\ [](pc \notin {"startup", "crashed"} => ENABLED Next)

\* C10 witness: an exception raised by the import call, after the enqueue
\* steps, has been caught and the program is about to sleep.
C10_Witness ==
    /\ pc = "sleep"
    /\ branch = "exception"
    /\ submitted # <<>>

\* positions in the request log of a call of the requests named request
RequestsOf(log, request) == { i \in 1..Len(log) : log[i].request = request }

\* C7: in a finished call of import_downloads, every POST to the submission
\* endpoint comes after a probe GET that returned 200; a probe that returned
\* another status or raised makes the call return False without any POST; and
\* the call returns True exactly when a POST was issued and returned 200.
C7_ImportHandshake ==
    import_call.result \in {"True", "False", "Raise"} =>
        LET log == import_call.requests
            probes == RequestsOf(log, "GET torrents")
            posts == RequestsOf(log, "POST torrents")
        IN /\ \A i \in posts : \E j \in probes : j < i /\ log[j].outcome = "200"
           /\ \A j \in probes :
                 /\ log[j].outcome = import_call.probe
                 /\ log[j].outcome # "200" =>
                       import_call.result = "False" /\ posts = {}
           /\ \A i \in posts : log[i].outcome = import_call.post
           /\ import_call.result = "True" <=>
                 \E i \in posts : log[i].outcome = "200"

\* C7 witness (scenario C): a call whose probe returned 401 has returned False.
C7_Witness ==
    /\ import_call.result = "False"
    /\ \E j \in RequestsOf(import_call.requests, "GET torrents") :
          import_call.requests[j].outcome = "401"

\* d is complete in the status data of the cycle, no response of the wrong
\* shape has interrupted the cycle, and no import of d has failed in it
StaysImportable(d) ==
    /\ download_data.wf
    /\ is_directory_completed(download_data, d)
    /\ pc # "except"
    /\ ~(branch \in {"retry", "abandon"} /\ submitted = <<d>>)

\* C8: with the import credential configured, a queued directory that from
\* then on is complete in every status response, and whose import does not
\* fail, is eventually in processed_directories, whatever else is queued.
C8_EventuallyProcessed ==
    \A d \in QueueNames :
        []( ( /\ api_key
              /\ d \in Range(subdirectory_queue)
              /\ []StaysImportable(d) )
            => <>(d \in processed_directories) )

\* C8 witness: a directory has been imported in a cycle that found it behind
\* another queued directory at an earlier time (the other one is still queued
\* and has been moved to the tail).
C8_Witness ==
    /\ branch = "success"
    /\ submitted # <<>>
    /\ submitted[1] \in processed_directories
    /\ subdirectory_queue # <<>>
    /\ \A i \in 1..Len(subdirectory_queue) : subdirectory_queue[i] # submitted[1]

\* C11: the manual intervention check is advisory only: whichever result it
\* gives, the step of a successful import adds the head to
\* processed_directories, pops it, replaces previous_subdirectories by the
\* current set and leaves processing_failures as it is; so the state after
\* the step is the same for both results.
C11_ManualCheckAdvisory ==
    [][ (pc = "process" /\ branch' \in {SuccessBranch(TRUE), SuccessBranch(FALSE)}) =>
          ( /\ processed_directories' = processed_directories \cup {Head(subdirectory_queue)}
            /\ subdirectory_queue' = Tail(subdirectory_queue)
            /\ previous_subdirectories' = current_subdirectories
            /\ processing_failures' = processing_failures ) ]_vars

\* C11 witness: an import has succeeded and the check said that manual
\* intervention is needed; the directory is processed and out of the queue.
C11_Witness ==
    /\ branch = SuccessBranch(TRUE)
    /\ submitted # <<>>
    /\ submitted[1] \in processed_directories
    /\ submitted[1] \notin Range(subdirectory_queue)

\* the enqueue steps of a cycle are under way or done, the head not yet processed
InCycle == pc \in {"enqueue new", "enqueue current", "process"}

\* C12 (as claimed): in every cycle every name of `completed` is also in
\* `current`.
C12_CompletedWithinCurrent ==
    InCycle => Range(completed_directories) \subseteq current_subdirectories

\* C16 (as claimed): whatever path a cycle that computed `current` took, the
\* next cycle starts with previous_subdirectories equal to that `current`.
\* (A cycle whose status request raised before `current` was assigned,
\* main.py:97, computed none and is left out.)
C16_PreviousReplaced ==
    [][ ( /\ pc' = "loop top"
          /\ pc \in {"process", "sleep"}
          /\ ~(branch = "exception" /\ submitted = <<>>) )
        => previous_subdirectories' = current_subdirectories ]_vars

\* C17: after the two enqueue steps and before the head is processed, every
\* name that is in `current`, in `completed` and not in processed_directories
\* is in the queue.
C17_CatchUpEnqueue ==
    pc = "process" =>
        \A d \in current_subdirectories :
            (d \in Range(completed_directories) /\ d \notin processed_directories)
                => d \in Range(subdirectory_queue)

\* C17 witness: the queue holds, before the head is processed, a completed
\* directory that is not in the `new` diff and that had left the queue before
\* (it was abandoned): the catch-up step put it back.
C17_Witness ==
    /\ pc = "process"
    /\ \E d \in Range(subdirectory_queue) :
          /\ d \in current_subdirectories \cap previous_subdirectories
          /\ d \in Range(completed_directories)
          /\ d \notin processed_directories
          /\ d \in DOMAIN processing_failures
          /\ processing_failures[d] >= RetryCap

C19_CounterLifetime ==
    [][ /\ (pc = "process" /\ subdirectory_queue # <<>> /\ branch' = "abandon") =>
              Head(subdirectory_queue) \notin DOMAIN processing_failures'
        /\ (branch' # "abandon") =>
              DOMAIN processing_failures \subseteq DOMAIN processing_failures'
        /\ (branch' \in {SuccessBranch(TRUE), SuccessBranch(FALSE)}) =>
              processing_failures' = processing_failures ]_vars

\* C20: processed_directories never loses an element, and it gains one only
\* by the step of a cycle whose import of the head succeeded: the name gained
\* is that head, and its head occurrence is popped by the same step.
C20_ProcessedMonotone ==
    [][ /\ processed_directories \subseteq processed_directories'
        /\ (processed_directories' # processed_directories) =>
              ( /\ pc = "process"
                /\ subdirectory_queue # <<>>
                /\ processed_directories' =
                      processed_directories \cup {Head(subdirectory_queue)}
                /\ submitted' = <<Head(subdirectory_queue)>>
                /\ branch' \in {SuccessBranch(TRUE), SuccessBranch(FALSE)}
                /\ subdirectory_queue' = Tail(subdirectory_queue) ) ]_vars

\* C20 witness: a second directory has just been imported with success, the
\* first is still in processed_directories.
C20_Witness ==
    /\ branch \in {SuccessBranch(TRUE), SuccessBranch(FALSE)}
    /\ submitted # <<>>
    /\ submitted[1] \in processed_directories
    /\ Cardinality(processed_directories) >= 2

\* the directory entries of a status response that have a directory path
PathEntries(data) ==
    { e \in UNION { Range(data.users[u]) : u \in 1..Len(data.users) } : e.directory # <<>> }

\* the entries hold at least one file and every file they hold is completed
AllFilesCompleted(entries) ==
    /\ \E e \in entries : e.files # <<>>
    /\ \A e \in entries : \A k \in 1..Len(e.files) : e.files[k] = CompletedState

\* the entries whose normalised name is n / is n up to letter case
EntriesWithName(data, n) == { e \in PathEntries(data) : DirName(e.directory) = n }
EntriesWithNameIgnoringCase(data, n) ==
    { e \in PathEntries(data) : Lower(DirName(e.directory)) = Lower(n) }

\* C13: get_completed_directories gives exactly the normalised names that,
\* taking together all entries of the name under all users, have at least one
\* file and only files in state "Completed, Succeeded"; each name once.
C13_CompletedDirectories ==
    pc = "queried" =>
        /\ Range(completed_directories) =
              { n \in { DirName(e.directory) : e \in PathEntries(download_data) } :
                    AllFilesCompleted(EntriesWithName(download_data, n)) }
        /\ \A i, j \in 1..Len(completed_directories) :
              completed_directories[i] = completed_directories[j] => i = j

\* C13 witness: a directory whose files, all completed, are spread over both
\* users is reported, once.
C13_Witness ==
    /\ pc = "queried"
    /\ Len(download_data.users) = 2
    /\ Len(download_data.users[1]) = 1
    /\ Len(download_data.users[2]) = 1
    /\ DirName(download_data.users[1][1].directory) = <<"A">>
    /\ DirName(download_data.users[2][1].directory) = <<"A">>
    /\ completed_directories = << <<"A">> >>

\* C14: is_directory_completed is False when the response is empty or holds
\* no file under a directory of the asked name (names compared as the
\* function compares them, ignoring case).
C14_VacuousIsFalse ==
    ( /\ pc = "queried"
      /\ \/ download_data.users = <<>>
         \/ \A e \in EntriesWithNameIgnoringCase(download_data, query.directory_name) :
                e.files = <<>> )
    => query.result = "False"

\* C14 witness: the response holds the asked directory without any file, and
\* another directory that is complete; the answer is False.
C14_Witness ==
    /\ pc = "queried"
    /\ EntriesWithNameIgnoringCase(download_data, query.directory_name) # {}
    /\ \A e \in EntriesWithNameIgnoringCase(download_data, query.directory_name) :
           e.files = <<>>
    /\ completed_directories # <<>>
    /\ query.result = "False"

\* C15: is_directory_completed gives the same answer for names that differ
\* in letter case only, the answer being True exactly when the entries whose
\* name is the asked one up to case hold a file and only completed files;
\* the name set stays case-sensitive: a name is in it only if an entry has
\* exactly that name.
C15_CaseInsensitiveQuery ==
    pc = "queried" =>
        /\ \A other \in QueryNames :
              Lower(other) = Lower(query.directory_name) =>
                  (is_directory_completed(download_data, other) <=> query.result = "True")
        /\ query.result = "True" <=>
              AllFilesCompleted(EntriesWithNameIgnoringCase(download_data, query.directory_name))
        /\ \A n \in QueryNames :
              n \in current_subdirectories <=> EntriesWithName(download_data, n) # {}

\* C15 witness (scenario A): the directory "A", all files completed, is
\* reported complete when asked for as "a", and "a" is not in the name set.
C15_Witness ==
    /\ pc = "queried"
    /\ query.directory_name = <<"a">>
    /\ query.result = "True"
    /\ current_subdirectories = { <<"A">> }
    /\ completed_directories = << <<"A">> >>

\* C21: an import is called only by the processing step of a cycle, for the
\* head of the queue, and only when the status data fetched at the start of
\* that cycle (no step of the cycle replaces it) holds a file of the head's
\* name and only completed files of it; when that data is empty the step calls
\* no import and the queue keeps all its elements.
C21_NoPrematureImport ==
    [][ /\ (submitted' # submitted /\ submitted' # <<>>) =>
              ( /\ pc = "process"
                /\ subdirectory_queue # <<>>
                /\ submitted' = <<Head(subdirectory_queue)>>
                /\ AllFilesCompleted(
                       EntriesWithNameIgnoringCase(download_data, Head(subdirectory_queue))) )
        /\ InCycle => download_data' = download_data
        /\ (pc = "process" /\ download_data = EmptyData) =>
              ( /\ submitted' = <<>>
                /\ Len(subdirectory_queue') = Len(subdirectory_queue)
                /\ \A d \in Range(subdirectory_queue) :
                      Count(subdirectory_queue', d) = Count(subdirectory_queue, d) ) ]_vars

\* C21 witness: a cycle whose status request failed (empty data) has moved
\* its head, once imported without success, behind another directory and has
\* called no import.
C21_Witness ==
    /\ pc = "sleep"
    /\ download_data = EmptyData
    /\ branch = "incomplete"
    /\ submitted = <<>>
    /\ Len(subdirectory_queue) >= 2
    /\ subdirectory_queue[Len(subdirectory_queue)] \in DOMAIN processing_failures

\* C22 (as claimed): every name that get_completed_directories reports for a
\* status response is complete for is_directory_completed on that response.
C22_EnqueueAndRecheckAgree ==
    (pc = "queried" /\ query.directory_name \in Range(completed_directories))
        => query.result = "True"

\* C23 (as claimed): no name is both in processed_directories and in the queue.
C23_ProcessedNotQueued ==
    Range(subdirectory_queue) \cap processed_directories = {}

====
